---- MODULE Spec2Model ----
(***************************************************************************)
(* Model of sable's network history log                                    *)
(* (sable_network/src/history/log.rs): the primary ConcurrentLog of        *)
(* HistoryLogEntry, the RwLock-guarded map of per-user ConcurrentLogs of   *)
(* entry ids, the two per-user iterators and expire_entries; and of the    *)
(* CHATHISTORY command handler                                             *)
(* (sable_ircd/src/command/handlers/chathistory.rs).                       *)
(***************************************************************************)
EXTENDS Integers, Sequences, FiniteSets, TLC

(***************************************************************************)
(* Bounds of the model: the primary log's size and the number of           *)
(* add_entry_for_user calls under the two-thread specification (Spec) and  *)
(* under the one-thread specification with iterators (SeqSpec), the        *)
(* primary log's size under the all-kinds specification (KindSpec), the    *)
(* same two under the two-thread specification with iterators (ConcSpec,   *)
(* LiveSpec), the number of add_entry_for_user calls under the             *)
(* specifications about the lock (AppendSpec, LockSpec), and the primary   *)
(* log's size and the number of add_entry_for_user calls under the         *)
(* specification of iteration during appends (IterSpec), and the number of *)
(* into_raw_fd calls and of datagrams in flight under the specification of *)
(* the IPC channel (IpcSpec), and the number of members of the channel     *)
(* whose names are sent (NamesSpec).                                       *)
(***************************************************************************)
MaxSize == 2
MaxAppend == 2
SeqMaxSize == 3
SeqMaxUserLog == 3
KindMaxSize == 1
ConcMaxSize == 1
ConcMaxAppend == 2
AppendMaxCalls == 4
LockMaxAppend == 2
IterMaxSize == 2
IterMaxAppend == 3
IpcMaxHandover == 3
IpcMaxInFlight == 2
NamesMaxMembers == 3

Threads == {"t1", "t2"}

\* the threads of the specifications about the lock: a third one besides
LockThreads == Threads \cup {"t3"}
Users == {"u1", "u2"}
Timestamps == {100, 200, 300}
Thresholds == {200, 250}

\* the (source_event, timestamp) pairs the two-thread specification adds
AddInputs == {<<"e1", 100>>, <<"e2", 200>>}

\* the entry ids the two-thread specification appends: returned by add or not
EntryIdsIn == {0, 1, 2}

(***************************************************************************)
(* NetworkStateChange kinds, split as the match in add splits them.        *)
(***************************************************************************)
ExcludedKinds ==
    {"NewUser", "UserModeChange", "UserAwayChange", "NewUserConnection",
     "UserConnectionDisconnected", "NewServer", "ServerQuit",
     "NewAuditLogEntry", "UserLoginChange", "ServicesUpdate",
     "HistoryServerUpdate", "EventComplete"}

StoredKinds ==
    {"UserNickChange", "UserQuit", "ChannelModeChange", "ChannelTopicChange",
     "ListModeAdded", "ListModeRemoved", "MembershipFlagChange",
     "ChannelJoin", "ChannelKick", "ChannelPart", "ChannelInvite",
     "ChannelRename", "NewMessage"}

NetworkStateChange == ExcludedKinds \cup StoredKinds

\* Option<T>: None is the empty set, Some(x) the singleton
None == {}

Some(x) == {x}

Unwrap(o) == CHOOSE x \in o : TRUE

VARIABLES
    entries,      \* NetworkHistoryLog.entries: ConcurrentLog<HistoryLogEntry>
    user_logs,    \* NetworkHistoryLog.user_logs: HashMap<UserId, UserHistoryLog>
    lock,         \* the RwLock around user_logs
    pc,           \* per thread: where it is inside the call it is making
    call,         \* per thread: the arguments of the call in progress
    iter,         \* per thread: its per-user iterator
    rejected,     \* history: the kind of the last add that returned None
    added,        \* history: one record per index assigned by add
    appended,     \* history, per thread: the add_entry_for_user calls it made
    created,      \* history, per user: how often its index was inserted
    expired,      \* history: the threshold, in the state an expire_entries leaves
    handler,      \* the CHATHISTORY command handler: its request and what it did
    ipc,          \* the IPC channel: its endpoints, sockets and raw descriptors
    names         \* send_channel_names: the call in progress and what it sent

vars == <<entries, user_logs, lock, pc, call, iter, rejected, added, appended,
          created, expired, handler, ipc, names>>

\* the history log
log_vars == <<entries, user_logs, lock, pc, call, iter, rejected, added,
              appended, created, expired>>

\* what the history log's operations leave alone
outside_log == <<handler, ipc, names>>

\* what the command handler's steps leave alone, the history log apart
outside_handler == <<ipc, names>>

(***************************************************************************)
(* ConcurrentLog<T>: start_index, and one slot per index ever assigned.    *)
(* A slot is live once its push is visible; index i is slots[i + 1].       *)
(***************************************************************************)
EmptyLog == [start_index |-> 0, slots |-> <<>>]

Size(log) == Len(log.slots)

StartIndex(log) == log.start_index

Get(log, index) ==
    IF /\ log.start_index <= index
       /\ index < Len(log.slots)
       /\ log.slots[index + 1].live
    THEN Some(log.slots[index + 1].val)
    ELSE None

\* push: index assignment and visibility in one atomic step
Push(log, value) ==
    [log EXCEPT !.slots = Append(@, [live |-> TRUE, val |-> value])]

\* push_with_index, first half: the index is assigned, the value not yet visible
PushReserve(log, value) ==
    [log EXCEPT !.slots = Append(@, [live |-> FALSE, val |-> value])]

\* push_with_index, second half: the finalized value becomes visible
PushPublish(log, index, value) ==
    [log EXCEPT !.slots[index + 1] = [live |-> TRUE, val |-> value]]

\* trim: the index trimming stops at, given the set of indices whose value
\* satisfies the predicate: the first one at or after start_index outside it
TrimStop(log, matching) ==
    CHOOSE i \in log.start_index .. Len(log.slots) :
        /\ i = Len(log.slots) \/ i \notin matching
        /\ \A j \in log.start_index .. (i - 1) : j \in matching

Trim(log, matching) == [log EXCEPT !.start_index = TrimStop(log, matching)]

(***************************************************************************)
(* The RwLock (parking_lot): shared readers, one upgradable reader, and    *)
(* the writer bit, which upgrade sets before it waits for the readers.     *)
(***************************************************************************)
Unlocked == [readers |-> 0, upgradable |-> FALSE, writer |-> FALSE]

CanRead(l) == ~l.writer

\* mutant: the append takes the lock as write() does, readers excluded
CanWrite(l) == ~l.writer /\ ~l.upgradable /\ l.readers = 0

\* mutant: the append takes the lock as read() does, shared with appends
CanReadShared(l) == ~l.writer

CanUpgradableRead(l) == ~l.writer /\ ~l.upgradable

CanFinishUpgrade(l) == l.readers = 0

(***************************************************************************)
(* Iterators: UserHistoryLogIterator and ReverseUserHistoryLogIterator.    *)
(* out is what next() has yielded so far; clean says that neither log has  *)
(* changed since the iterator was made.                                    *)
(***************************************************************************)
NoIter ==
    [alive |-> FALSE, reverse |-> FALSE, user |-> "", user_log |-> FALSE,
     current_index |-> 0, out |-> <<>>, done |-> FALSE, clean |-> FALSE]

Dirty(its) == [t \in DOMAIN its |-> [its[t] EXCEPT !.clean = FALSE]]

Idle == [op |-> "idle"]

\* the IPC endpoints and their sockets before channel() is called; raw is
\* the descriptor into_raw_fd has handed to its caller
Roles == {"Sender", "Receiver"}

NoChannel ==
    [ends |-> [r \in Roles |-> [state |-> "none", socket |-> None]],
     sockets |-> [r \in Roles |-> [open |-> FALSE, shutdown |-> <<>>]],
     raw |-> [r \in Roles |-> None],
     handovers |-> 0,
     in_flight |-> 0]

\* String::new(), for a line of names: the members written to it, each as
\* prefixes, name and a space, and its length
String_new == [items |-> <<>>, len |-> 0]

\* send_channel_names before it is called; members are the channel's
\* members the loop has been through
NoNames ==
    [pc |-> "idle", with_userhost |-> FALSE, with_multiprefix |-> FALSE,
     user_is_on_chan |-> FALSE, members |-> <<>>, lines |-> <<>>,
     current_line |-> String_new, sent |-> <<>>, result |-> None]

\* the command handler before a command arrives
NoCommand ==
    [pc |-> "idle", request |-> None, calls |-> <<>>, reply |-> None,
     sent |-> <<>>, result |-> None]

Init ==
    /\ handler = NoCommand
    /\ ipc = NoChannel
    /\ names = NoNames
    /\ entries = EmptyLog
    /\ user_logs = << >>
    /\ lock = Unlocked
    /\ pc = [t \in LockThreads |-> "idle"]
    /\ call = [t \in LockThreads |-> Idle]
    /\ iter = [t \in LockThreads |-> NoIter]
    /\ rejected = None
    /\ added = <<>>
    /\ appended = [t \in LockThreads |-> <<>>]
    /\ created = [u \in Users |-> 0]
    /\ expired = None

(***************************************************************************)
(* NetworkHistoryLog::add                                                  *)
(***************************************************************************)
\* mutant: the NewUser arm sits with the stored kinds
IsStoredWithNewUser(details) == details \in StoredKinds \cup {"NewUser"}

IsStored(details) == details \in StoredKinds

NewEntry(details, source_event, timestamp) ==
    [id |-> 0, timestamp |-> timestamp, source_event |-> source_event,
     details |-> details]

\* mutant: the callback leaves the placeholder id
FinalizeKeepsPlaceholder(entry, index) == entry

\* the finalize callback: |entry, index| entry.id = index
Finalize(entry, index) == [entry EXCEPT !.id = index]

\* an excluded kind: None, nothing touched
add_None(t, details, source_event, timestamp) ==
    /\ pc[t] = "idle"
    /\ ~IsStored(details)
    /\ rejected' = Some(details)
    /\ UNCHANGED <<entries, user_logs, lock, pc, call, iter, added, appended,
                   created>>
    /\ expired' = None
    /\ UNCHANGED outside_log

\* an allow-listed kind: push_with_index assigns the index to the entry
\* built with the placeholder id 0
add_push_with_index(t, details, source_event, timestamp) ==
    /\ pc[t] = "idle"
    /\ IsStored(details)
    /\ entries' = PushReserve(entries, NewEntry(details, source_event, timestamp))
    /\ pc' = [pc EXCEPT ![t] = "add_finalize"]
    /\ call' = [call EXCEPT ![t] = [op |-> "add", index |-> Size(entries)]]
    /\ added' = Append(added,
                   [ret |-> None, details |-> details,
                    source_event |-> source_event, timestamp |-> timestamp])
    /\ iter' = Dirty(iter)
    /\ UNCHANGED <<user_logs, lock, rejected, appended, created>>
    /\ expired' = None
    /\ UNCHANGED outside_log

\* mutant: add returns the log's last index, read after the push
ReturnedIdLast(t) == Size(entries) - 1

\* mutant: add returns the id after the log's last one
ReturnedIdNext(t) == Size(entries) + 1

\* Some(self.entries.push_with_index(..)): the index the push was assigned
ReturnedId(t) == call[t].index

\* the callback sets entry.id, the entry becomes visible, add returns Some(index)
add_finalize(t) ==
    /\ pc[t] = "add_finalize"
    /\ LET index == call[t].index
           entry == entries.slots[index + 1].val
       IN /\ entries' = PushPublish(entries, index, Finalize(entry, index))
          /\ added' = [added EXCEPT ![index + 1].ret = Some(ReturnedId(t))]
    /\ pc' = [pc EXCEPT ![t] = "idle"]
    /\ call' = [call EXCEPT ![t] = Idle]
    /\ iter' = Dirty(iter)
    /\ UNCHANGED <<user_logs, lock, rejected, appended, created>>
    /\ expired' = None
    /\ UNCHANGED outside_log

\* NetworkHistoryLog::get
get(entry_id) == Get(entries, entry_id)

(***************************************************************************)
(* NetworkHistoryLog::add_entry_for_user                                   *)
(***************************************************************************)
\* the call is made; it waits for the upgradable read lock
add_entry_for_user(t, user_id, entry_id) ==
    /\ pc[t] = "idle"
    /\ pc' = [pc EXCEPT ![t] = "aeu_lock"]
    /\ call' = [call EXCEPT ![t] =
                   [op |-> "add_entry_for_user", user_id |-> user_id,
                    entry_id |-> entry_id]]
    /\ appended' = [appended EXCEPT ![t] =
                       Append(@, [user_id |-> user_id, entry_id |-> entry_id])]
    /\ UNCHANGED <<entries, user_logs, lock, iter, rejected, added, created>>
    /\ expired' = None
    /\ UNCHANGED outside_log

\* let user_logs = self.user_logs.upgradable_read();
add_entry_for_user_lock(t) ==
    /\ pc[t] = "aeu_lock"
    /\ CanUpgradableRead(lock)
    /\ lock' = [lock EXCEPT !.upgradable = TRUE]
    /\ pc' = [pc EXCEPT ![t] = "aeu_match"]
    /\ UNCHANGED <<entries, user_logs, call, iter, rejected, added, appended,
                   created>>
    /\ expired' = None
    /\ UNCHANGED outside_log

\* Some(log) => log.push(entry_id); the guard is dropped
add_entry_for_user_Some(t) ==
    /\ pc[t] = "aeu_match"
    /\ call[t].user_id \in DOMAIN user_logs
    /\ user_logs' = [user_logs EXCEPT ![call[t].user_id] = Push(@, call[t].entry_id)]
    /\ lock' = [lock EXCEPT !.upgradable = FALSE]
    /\ pc' = [pc EXCEPT ![t] = "idle"]
    /\ call' = [call EXCEPT ![t] = Idle]
    /\ iter' = Dirty(iter)
    /\ UNCHANGED <<entries, rejected, added, appended, created>>
    /\ expired' = None
    /\ UNCHANGED outside_log

\* None => RwLockUpgradableReadGuard::upgrade(user_logs): the writer bit is
\* set and the upgradable read given up; the call waits for the readers
add_entry_for_user_upgrade(t) ==
    /\ pc[t] = "aeu_match"
    /\ call[t].user_id \notin DOMAIN user_logs
    /\ lock' = [lock EXCEPT !.upgradable = FALSE, !.writer = TRUE]
    /\ pc' = [pc EXCEPT ![t] = "aeu_upgrade"]
    /\ UNCHANGED <<entries, user_logs, call, iter, rejected, added, appended,
                   created>>
    /\ expired' = None
    /\ UNCHANGED outside_log

\* user_logs_write.entry(user_id).or_default()
EntryOrDefault(map, user_id) ==
    IF user_id \in DOMAIN map
    THEN map
    ELSE [u \in DOMAIN map \cup {user_id} |->
             IF u = user_id THEN EmptyLog ELSE map[u]]

\* mutant: the None branch inserts the index and drops the id
add_entry_for_user_None_NoPush(t) ==
    /\ pc[t] = "aeu_upgrade"
    /\ CanFinishUpgrade(lock)
    /\ user_logs' = EntryOrDefault(user_logs, call[t].user_id)
    /\ created' = [created EXCEPT ![call[t].user_id] =
                      IF call[t].user_id \in DOMAIN user_logs THEN @ ELSE @ + 1]
    /\ lock' = [lock EXCEPT !.writer = FALSE]
    /\ pc' = [pc EXCEPT ![t] = "idle"]
    /\ call' = [call EXCEPT ![t] = Idle]
    /\ iter' = Dirty(iter)
    /\ UNCHANGED <<entries, rejected, added, appended>>
    /\ expired' = None
    /\ UNCHANGED outside_log

\* the upgrade completes once no reader is left: the index is inserted,
\* entry_id pushed, the write guard dropped
add_entry_for_user_None(t) ==
    /\ pc[t] = "aeu_upgrade"
    /\ CanFinishUpgrade(lock)
    /\ LET user_id == call[t].user_id
           inserted == EntryOrDefault(user_logs, user_id)
       IN /\ user_logs' = [inserted EXCEPT ![user_id] = Push(@, call[t].entry_id)]
          /\ created' = [created EXCEPT ![user_id] =
                            IF user_id \in DOMAIN user_logs THEN @ ELSE @ + 1]
    /\ lock' = [lock EXCEPT !.writer = FALSE]
    /\ pc' = [pc EXCEPT ![t] = "idle"]
    /\ call' = [call EXCEPT ![t] = Idle]
    /\ iter' = Dirty(iter)
    /\ UNCHANGED <<entries, rejected, added, appended>>
    /\ expired' = None
    /\ UNCHANGED outside_log

(***************************************************************************)
(* NetworkHistoryLog::entries_for_user / entries_for_user_reverse          *)
(***************************************************************************)
\* the call is made; it waits for the read lock
entries_for_user(t, user) ==
    /\ pc[t] = "idle"
    /\ ~iter[t].alive
    /\ pc' = [pc EXCEPT ![t] = "efu_lock"]
    /\ call' = [call EXCEPT ![t] = [op |-> "entries_for_user", user |-> user]]
    /\ UNCHANGED <<entries, user_logs, lock, iter, rejected, added, appended,
                   created>>
    /\ expired' = None
    /\ UNCHANGED outside_log

\* try_map(self.user_logs.read(), |logs| logs.get(&user)).ok(): the read
\* guard is kept when the user has an index and dropped when it has none
entries_for_user_read(t) ==
    /\ pc[t] = "efu_lock"
    /\ CanRead(lock)
    /\ LET user == call[t].user
           found == user \in DOMAIN user_logs
       IN /\ lock' = [lock EXCEPT !.readers = IF found THEN @ + 1 ELSE @]
          /\ iter' = [iter EXCEPT ![t] =
                 [alive |-> TRUE, reverse |-> FALSE, user |-> user,
                  user_log |-> found,
                  current_index |->
                      IF found THEN StartIndex(user_logs[user]) ELSE 0,
                  out |-> <<>>, done |-> FALSE, clean |-> TRUE]]
    /\ pc' = [pc EXCEPT ![t] = "idle"]
    /\ call' = [call EXCEPT ![t] = Idle]
    /\ UNCHANGED <<entries, user_logs, rejected, added, appended, created>>
    /\ expired' = None
    /\ UNCHANGED outside_log

entries_for_user_reverse(t, user) ==
    /\ pc[t] = "idle"
    /\ ~iter[t].alive
    /\ pc' = [pc EXCEPT ![t] = "efur_lock"]
    /\ call' = [call EXCEPT ![t] =
                   [op |-> "entries_for_user_reverse", user |-> user]]
    /\ UNCHANGED <<entries, user_logs, lock, iter, rejected, added, appended,
                   created>>
    /\ expired' = None
    /\ UNCHANGED outside_log

entries_for_user_reverse_read(t) ==
    /\ pc[t] = "efur_lock"
    /\ CanRead(lock)
    /\ LET user == call[t].user
           found == user \in DOMAIN user_logs
       IN /\ lock' = [lock EXCEPT !.readers = IF found THEN @ + 1 ELSE @]
          /\ iter' = [iter EXCEPT ![t] =
                 [alive |-> TRUE, reverse |-> TRUE, user |-> user,
                  user_log |-> found,
                  current_index |-> IF found THEN Size(user_logs[user]) ELSE 0,
                  out |-> <<>>, done |-> FALSE, clean |-> TRUE]]
    /\ pc' = [pc EXCEPT ![t] = "idle"]
    /\ call' = [call EXCEPT ![t] = Idle]
    /\ UNCHANGED <<entries, user_logs, rejected, added, appended, created>>
    /\ expired' = None
    /\ UNCHANGED outside_log

\* mutant: a missing primary entry ends the iteration
LoopTurnEndsAtHole(it, index) ==
    LET next_id == IF it.user_log THEN Get(user_logs[it.user], index) ELSE None
        entry == IF next_id = None THEN None ELSE Get(entries, Unwrap(next_id))
    IN IF next_id = None \/ entry = None
       THEN [it EXCEPT !.current_index = index, !.done = TRUE]
       ELSE [it EXCEPT !.current_index = index,
                       !.out = Append(@, Unwrap(entry))]

\* mutant: a missing primary entry is looked at again
LoopTurnStaysAtHole(it, index) ==
    LET next_id == IF it.user_log THEN Get(user_logs[it.user], index) ELSE None
        entry == IF next_id = None THEN None ELSE Get(entries, Unwrap(next_id))
    IN IF next_id = None
       THEN [it EXCEPT !.current_index = index, !.done = TRUE]
       ELSE IF entry = None
       THEN it
       ELSE [it EXCEPT !.current_index = index,
                       !.out = Append(@, Unwrap(entry))]

\* what one turn of an iterator's loop does with the index it looks at:
\* the iterator ends, or skips a missing entry, or yields the entry
LoopTurn(it, index) ==
    LET next_id == IF it.user_log THEN Get(user_logs[it.user], index) ELSE None
        entry == IF next_id = None THEN None ELSE Get(entries, Unwrap(next_id))
    IN IF next_id = None
       THEN [it EXCEPT !.current_index = index, !.done = TRUE]
       ELSE IF entry = None
       THEN [it EXCEPT !.current_index = index]
       ELSE [it EXCEPT !.current_index = index,
                       !.out = Append(@, Unwrap(entry))]

\* UserHistoryLogIterator::next, one turn of its loop
UserHistoryLogIterator_next(t) ==
    /\ pc[t] = "idle"
    /\ iter[t].alive /\ ~iter[t].reverse /\ ~iter[t].done
    /\ iter' = [iter EXCEPT ![t] = LoopTurn(@, @.current_index + 1)]
    /\ UNCHANGED <<entries, user_logs, lock, pc, call, rejected, added, appended,
                   created>>
    /\ expired' = None
    /\ UNCHANGED outside_log

\* ReverseUserHistoryLogIterator::next, one turn of its loop
ReverseUserHistoryLogIterator_next(t) ==
    /\ pc[t] = "idle"
    /\ iter[t].alive /\ iter[t].reverse /\ ~iter[t].done
    /\ iter' = [iter EXCEPT ![t] =
                   IF @.current_index = 0
                   THEN [@ EXCEPT !.done = TRUE]
                   ELSE LoopTurn(@, @.current_index - 1)]
    /\ UNCHANGED <<entries, user_logs, lock, pc, call, rejected, added, appended,
                   created>>
    /\ expired' = None
    /\ UNCHANGED outside_log

\* the iterator goes out of scope: its read guard, if it has one, is dropped
drop_iterator(t) ==
    /\ pc[t] = "idle"
    /\ iter[t].alive
    /\ lock' = [lock EXCEPT !.readers = IF iter[t].user_log THEN @ - 1 ELSE @]
    /\ iter' = [iter EXCEPT ![t] = NoIter]
    /\ UNCHANGED <<entries, user_logs, pc, call, rejected, added, appended,
                   created>>
    /\ expired' = None
    /\ UNCHANGED outside_log

(***************************************************************************)
(* NetworkHistoryLog::expire_entries (&mut self: no call in progress and   *)
(* no iterator alive)                                                      *)
(***************************************************************************)
\* mutant: entries at the threshold are trimmed too
IsOlderOrEqual(entry, older_than) == entry.timestamp <= older_than

\* |entry| entry.timestamp < older_than
IsOlder(entry, older_than) == entry.timestamp < older_than

\* mutant: the id at the primary log's new floor is trimmed too
IsBeforeOrAt(id, new_first_index) == id <= new_first_index

\* |id| id < &new_first_index
IsBefore(id, new_first_index) == id < new_first_index

Indices(log) == 0 .. (Size(log) - 1)

ExpireEntries(log, older_than) ==
    Trim(log, {i \in Indices(log) : IsOlder(log.slots[i + 1].val, older_than)})

\* mutant: the index's floor is set to the primary log's new floor
ExpireUserLogToFloor(user_log, new_first_index) ==
    [user_log EXCEPT !.start_index = new_first_index]

ExpireUserLog(user_log, new_first_index) ==
    Trim(user_log, {i \in Indices(user_log) :
                       IsBefore(user_log.slots[i + 1].val, new_first_index)})

expire_entries(older_than) ==
    /\ \A t \in DOMAIN pc : pc[t] = "idle" /\ ~iter[t].alive
    /\ entries' = ExpireEntries(entries, older_than)
    /\ LET new_first_index == StartIndex(entries')
       IN user_logs' = [u \in DOMAIN user_logs |->
                           ExpireUserLog(user_logs[u], new_first_index)]
    /\ expired' = Some(older_than)
    /\ UNCHANGED outside_log
    /\ UNCHANGED <<lock, pc, call, iter, rejected, added, appended, created>>

(***************************************************************************)
(* The CHATHISTORY command handler (sable_ircd, handlers/chathistory.rs).  *)
(* A string is the sequence of its pieces around each '=': "timestamp=100" *)
(* is <<"timestamp", "=", "100">>, "bogus" is <<"bogus">>, "" is <<>>.     *)
(* A context is the sequence of its words, "" being <<>>. A description is *)
(* its fixed text and the value it quotes.                                 *)
(***************************************************************************)
Str(word) == <<word>>

EmptyStr == <<>>

\* msgref.split_once('=')
SplitOnce(s) ==
    IF \E i \in 1 .. Len(s) : s[i] = "="
    THEN LET i == CHOOSE k \in 1 .. Len(s) :
                      s[k] = "=" /\ \A j \in 1 .. (k - 1) : s[j] # "="
         IN Some(<<SubSeq(s, 1, i - 1), SubSeq(s, i + 1, Len(s))>>)
    ELSE None

\* the decimal numerals the requests are written with
Numerals ==
    [text \in {"0", "1", "2", "100", "200", "-1", "+2"} |->
        CASE text = "0" -> 0
          [] text = "1" -> 1
          [] text = "2" -> 2
          [] text = "100" -> 100
          [] text = "200" -> 200
          [] text = "-1" -> 0 - 1
          [] text = "+2" -> 2]

IsNumeral(s) == Len(s) = 1 /\ s[1] \in DOMAIN Numerals

\* utils::parse_timestamp: Some(timestamp) for a parseable timestamp
parse_timestamp(ts) ==
    IF IsNumeral(ts)
    THEN Some(Numerals[ts[1]])
    ELSE None

\* mutant: the limit parses as usize, zero included
ParseUsize(s) ==
    IF IsNumeral(s) /\ Numerals[s[1]] >= 0
    THEN Some(Numerals[s[1]])
    ELSE None

\* str::parse::<NonZeroUsize>: an optional '+', digits, and a value of at least 1
ParseNonZeroUsize(s) ==
    IF IsNumeral(s) /\ Numerals[s[1]] >= 1
    THEN Some(Numerals[s[1]])
    ELSE None

\* CommandError::Fail { command, code, context, description }
Fail(command, code, context, description) ==
    [command |-> command, code |-> code, context |-> context,
     description |-> description]

Description(text, value) == [text |-> text, value |-> value]

\* Result<T, CommandError>
Ok(value) == [ok |-> Some(value), err |-> None]

Err(error) == [ok |-> None, err |-> Some(error)]

\* match target { Some(target) => format!("{subcommand} {target}"),
\*                None => subcommand.to_string() }
ContextOf(subcommand, target) ==
    IF target = None THEN <<subcommand>> ELSE <<subcommand, Unwrap(target)>>

\* mutant: a msgid reference falls through to the timestamp arm
parse_msgref_MsgidAsTimestamp(subcommand, target, msgref) ==
    LET split == SplitOnce(msgref)
    IN IF split # None /\ Unwrap(split)[1] \in {Str("timestamp"), Str("msgid")}
       THEN LET ts == parse_timestamp(Unwrap(split)[2])
            IN IF ts # None
               THEN Ok(Unwrap(ts))
               ELSE Err(Fail("CHATHISTORY", "INVALID_PARAMS", <<subcommand>>,
                             Description("Invalid timestamp", EmptyStr)))
       ELSE Err(Fail("CHATHISTORY", "INVALID_MSGREFTYPE",
                     ContextOf(subcommand, target),
                     Description("is not a valid message reference", msgref)))

parse_msgref(subcommand, target, msgref) ==
    LET split == SplitOnce(msgref)
    IN IF split # None /\ Unwrap(split)[1] = Str("timestamp")
       THEN LET ts == parse_timestamp(Unwrap(split)[2])
            IN IF ts # None
               THEN Ok(Unwrap(ts))
               ELSE Err(Fail("CHATHISTORY", "INVALID_PARAMS", <<subcommand>>,
                             Description("Invalid timestamp", EmptyStr)))
       ELSE IF split # None /\ Unwrap(split)[1] = Str("msgid")
       THEN Err(Fail("CHATHISTORY", "INVALID_MSGREFTYPE",
                     ContextOf(subcommand, target),
                     Description("msgid-based history requests are not supported yet",
                                 EmptyStr)))
       ELSE Err(Fail("CHATHISTORY", "INVALID_MSGREFTYPE",
                     ContextOf(subcommand, target),
                     Description("is not a valid message reference", msgref)))

\* mutant: a limit that does not parse falls back to 1
parse_limit_DefaultsToOne(s) ==
    LET limit == ParseNonZeroUsize(s)
    IN IF limit # None THEN Ok(Unwrap(limit)) ELSE Ok(1)

parse_limit(s) ==
    LET limit == ParseNonZeroUsize(s)
    IN IF limit # None
       THEN Ok(Unwrap(limit))
       ELSE Err(Fail("CHATHISTORY", "INVALID_PARAMS", <<>>,
                     Description("Invalid limit", EmptyStr)))

\* subcommand.to_ascii_uppercase()
ToAsciiUppercase(word) ==
    CASE word = "targets" -> "TARGETS"
      [] OTHER -> word

\* TargetParameter::parse_str: the names that resolve to a user or a channel
KnownTargets == {Str("#chan"), Str("nick")}

ParseTarget(target) ==
    IF target \in KnownTargets THEN Ok(target) ELSE Err("LookupError")

\* the closure invalid_target_error
invalid_target_error(subcommand, target) ==
    Fail("CHATHISTORY", "INVALID_TARGET", <<subcommand, target>>,
         Description("Cannot fetch history from", target))

\* mutant: the bounds are passed on in the order they arrived
min_First(a, b) == a

min(a, b) == IF b < a THEN b ELSE a

max(a, b) == IF b < a THEN a ELSE b

\* the call history_service.list_targets(user, lower_ts, upper_ts, limit)
HistoryService_list_targets(user, lower_ts, upper_ts, limit) ==
    [service |-> "list_targets", user |-> user, lower_ts |-> lower_ts,
     upper_ts |-> upper_ts, limit |-> limit]

\* the call history_service.get_entries(user, target, request)
HistoryService_get_entries(user, target, request) ==
    [service |-> "get_entries", user |-> user, target |-> target,
     request |-> request]

\* the handler's list_targets, up to its await:
\* history_service.list_targets(source.id(), to_ts, from_ts, limit)
list_targets(source, from_ts, to_ts, limit) ==
    HistoryService_list_targets(source, to_ts, from_ts, limit)

\* the arm "TARGETS" up to the await
Targets(source, subcommand, arg_1, arg_2, arg_3) ==
    LET from_ts == parse_msgref(subcommand, None, arg_1)
        to_ts == parse_msgref(subcommand, None, arg_2)
        limit == parse_limit(arg_3)
    IN IF from_ts.err # None THEN from_ts
       ELSE IF to_ts.err # None THEN to_ts
       ELSE IF limit.err # None THEN limit
       ELSE Ok(list_targets(source,
                            Some(min(Unwrap(from_ts.ok), Unwrap(to_ts.ok))),
                            Some(max(Unwrap(from_ts.ok), Unwrap(to_ts.ok))),
                            Some(Unwrap(limit.ok))))

\* the arms "BEFORE", "AFTER" and "AROUND": one message reference and the limit
OneRef(kind, subcommand, target, arg_2, arg_3) ==
    LET ts == parse_msgref(subcommand, Some(target), arg_2)
        limit == parse_limit(arg_3)
    IN IF ts.err # None THEN ts
       ELSE IF limit.err # None THEN limit
       ELSE Ok([kind |-> kind, ts |-> Unwrap(ts.ok), limit |-> Unwrap(limit.ok)])

\* the arm "LATEST": "*" or a message reference, and the limit
Latest(subcommand, target, arg_2, arg_3) ==
    LET to_ts == IF arg_2 = Str("*")
                 THEN Ok(None)
                 ELSE LET ts == parse_msgref(subcommand, Some(target), arg_2)
                      IN IF ts.err # None THEN ts ELSE Ok(Some(Unwrap(ts.ok)))
        limit == parse_limit(arg_3)
    IN IF to_ts.err # None THEN to_ts
       ELSE IF limit.err # None THEN limit
       ELSE Ok([kind |-> "Latest", to_ts |-> Unwrap(to_ts.ok),
                limit |-> Unwrap(limit.ok)])

\* arg_4.unwrap_or("")
UnwrapOr(option, default) == IF option = None THEN default ELSE Unwrap(option)

\* the arm "BETWEEN": two message references and the limit in arg_4
Between(subcommand, target, arg_2, arg_3, arg_4) ==
    LET start_ts == parse_msgref(subcommand, Some(target), arg_2)
        end_ts == parse_msgref(subcommand, Some(target), arg_3)
        limit == parse_limit(UnwrapOr(arg_4, EmptyStr))
    IN IF start_ts.err # None THEN start_ts
       ELSE IF end_ts.err # None THEN end_ts
       ELSE IF limit.err # None THEN limit
       ELSE Ok([kind |-> "Between", start_ts |-> Unwrap(start_ts.ok),
                end_ts |-> Unwrap(end_ts.ok), limit |-> Unwrap(limit.ok)])

HistorySubcommands == {"LATEST", "BEFORE", "AFTER", "AROUND", "BETWEEN"}

\* let request = match normalized_subcommand { .. }, for a known subcommand
HistoryRequest(normalized_subcommand, subcommand, target, arg_2, arg_3, arg_4) ==
    CASE normalized_subcommand = "LATEST" ->
             Latest(subcommand, target, arg_2, arg_3)
      [] normalized_subcommand = "BEFORE" ->
             OneRef("Before", subcommand, target, arg_2, arg_3)
      [] normalized_subcommand = "AFTER" ->
             OneRef("After", subcommand, target, arg_2, arg_3)
      [] normalized_subcommand = "AROUND" ->
             OneRef("Around", subcommand, target, arg_2, arg_3)
      [] normalized_subcommand = "BETWEEN" ->
             Between(subcommand, target, arg_2, arg_3, arg_4)

\* message::Fail::new(command, code, context, description), sent to the client
message_Fail(command, code, context, description) ==
    [message |-> "FAIL", fail |-> Fail(command, code, context, description)]

\* what the handler has done when it returns or reaches its await: the
\* messages it sent, the Err it returned early, the service call it made
Outcome(sent, returned, service_call) ==
    [sent |-> sent, returned |-> returned, service_call |-> service_call]

\* handle_chathistory from its entry to its first await or early return
Parse(source, subcommand, arg_1, arg_2, arg_3, arg_4) ==
    LET normalized_subcommand == ToAsciiUppercase(subcommand)
    IN IF normalized_subcommand = "TARGETS"
       THEN LET targets == Targets(source, subcommand, arg_1, arg_2, arg_3)
            IN IF targets.err # None
               THEN Outcome(<<>>, targets.err, None)
               ELSE Outcome(<<>>, None, targets.ok)
       ELSE LET target == arg_1
                target_id == ParseTarget(target)
            IN IF target_id.err # None
               THEN Outcome(<<>>, Some(invalid_target_error(subcommand, target)),
                            None)
               ELSE IF normalized_subcommand \notin HistorySubcommands
               THEN Outcome(<<message_Fail("CHATHISTORY", "INVALID_PARAMS",
                                           <<subcommand>>,
                                           Description("Invalid subcommand",
                                                       EmptyStr))>>,
                            None, None)
               ELSE LET request ==
                            HistoryRequest(normalized_subcommand, subcommand,
                                           target, arg_2, arg_3, arg_4)
                    IN IF request.err # None
                       THEN Outcome(<<>>, request.err, None)
                       ELSE Outcome(<<>>, None,
                                    Some(HistoryService_get_entries(
                                             source, Unwrap(target_id.ok),
                                             Unwrap(request.ok))))

\* the command arrives: the handler runs to its first await or early return
handle_chathistory(source, subcommand, arg_1, arg_2, arg_3, arg_4) ==
    /\ handler.pc = "idle"
    /\ LET outcome == Parse(source, subcommand, arg_1, arg_2, arg_3, arg_4)
           awaits == outcome.service_call # None
       IN handler' =
              [pc |-> IF awaits THEN "await" ELSE "done",
               request |-> Some([source |-> source, subcommand |-> subcommand,
                                 arg_1 |-> arg_1, arg_2 |-> arg_2,
                                 arg_3 |-> arg_3, arg_4 |-> arg_4]),
               calls |-> IF awaits THEN <<Unwrap(outcome.service_call)>> ELSE <<>>,
               reply |-> None,
               sent |-> outcome.sent,
               result |-> IF awaits THEN None
                          ELSE IF outcome.returned # None
                          THEN Some(Err(Unwrap(outcome.returned)))
                          ELSE Some(Ok("()"))]
    /\ UNCHANGED log_vars
    /\ UNCHANGED outside_handler

\* HistoryError
InvalidTarget == [kind |-> "InvalidTarget", message |-> ""]

InternalError(e) == [kind |-> "InternalError", message |-> e]

\* HistoricalEvent::Message, with the fields the handler looks at
HistoricalEvent_Message(id, target) == [id |-> id, target |-> target]

\* conn.user_id() and server.network().user(user_id): the connection has no
\* user, or the network does not know its user, or it gives the user's nick
ConnUsers == {"none", "unknown", "known"}

\* the index of the first entry send_history_entries fails at, or 0
FirstUnformattable(events, conn_user) ==
    LET failing == {i \in 1 .. Len(events) :
                        events[i].target = None /\ conn_user # "known"}
    IN IF failing = {} THEN 0
       ELSE CHOOSE i \in failing : \A j \in failing : i <= j

\* what the handler does from an await on: the messages it sends and the
\* CommandResult it returns
Completion(sent, result) == [sent |-> sent, result |-> result]

send_history_entries(conn_user, target, events) ==
    LET failed == FirstUnformattable(events, conn_user)
        last == IF failed = 0 THEN Len(events) ELSE failed - 1
        batch == [message |-> "BATCH", batch |-> "chathistory",
                  arguments |-> <<target>>,
                  messages |-> [i \in 1 .. last |->
                                   [msgid |-> events[i].id,
                                    target |-> IF events[i].target = None
                                               THEN Str("nick")
                                               ELSE Unwrap(events[i].target)]]]
    IN Completion(<<batch>>,
           IF failed = 0
           THEN Ok("()")
           ELSE Err(Fail("CHATHISTORY", "MESSAGE_ERROR", <<>>,
                         Description(IF conn_user = "none"
                                     THEN "Could not format chathistory for non-user"
                                     ELSE "LookupError",
                                     EmptyStr))))

\* mutant: an internal error of the history service is dropped
get_entries_match_DropsInternalError(subcommand, target, conn_user, reply) ==
    IF reply.ok # None
    THEN send_history_entries(conn_user, target, Unwrap(reply.ok))
    ELSE IF Unwrap(reply.err).kind = "InvalidTarget"
    THEN Completion(<<>>, Err(invalid_target_error(subcommand, target)))
    ELSE Completion(<<>>, Ok("()"))

\* match history_service.get_entries(..).await { Ok(entries) => ..,
\*     Err(InvalidTarget(_)) => .., Err(InternalError(e)) => .. }
get_entries_match(subcommand, target, conn_user, reply) ==
    IF reply.ok # None
    THEN send_history_entries(conn_user, target, Unwrap(reply.ok))
    ELSE IF Unwrap(reply.err).kind = "InvalidTarget"
    THEN Completion(<<>>, Err(invalid_target_error(subcommand, target)))
    ELSE Completion(<<>>,
             Err(Fail("CHATHISTORY", "MESSAGE_ERROR", <<subcommand, target>>,
                      Description(Unwrap(reply.err).message, EmptyStr))))

\* get_entries returns and the handler runs to its end
get_entries_returns(reply, conn_user) ==
    /\ handler.pc = "await"
    /\ handler.calls[1].service = "get_entries"
    /\ LET request == Unwrap(handler.request)
           completion == get_entries_match(request.subcommand, request.arg_1,
                                           conn_user, reply)
       IN handler' = [handler EXCEPT
                          !.pc = "done",
                          !.reply = Some(reply),
                          !.sent = @ \o completion.sent,
                          !.result = Some(completion.result)]
    /\ UNCHANGED log_vars
    /\ UNCHANGED outside_handler

\* what the history service holds for the user, oldest first
ServiceHistory ==
    <<[target |-> "c1", timestamp |-> 100],
      [target |-> "u2", timestamp |-> 100],
      [target |-> "c1", timestamp |-> 200]>>

\* HistoryService::list_targets: the backward walk from position i within
\* [lower_ts, upper_ts], each target recorded the first time it is seen
RECURSIVE WalkTargets(_, _, _, _, _)
WalkTargets(i, lower_ts, upper_ts, limit, found) ==
    IF i = 0 \/ Cardinality(found) >= Unwrap(limit)
    THEN found
    ELSE LET entry == ServiceHistory[i]
             seen == {pair[1] : pair \in found}
         IN IF /\ Unwrap(lower_ts) <= entry.timestamp
               /\ entry.timestamp <= Unwrap(upper_ts)
               /\ entry.target \notin seen
            THEN WalkTargets(i - 1, lower_ts, upper_ts, limit,
                             found \cup {<<entry.target, entry.timestamp>>})
            ELSE WalkTargets(i - 1, lower_ts, upper_ts, limit, found)

\* found_targets.sort_unstable_by_key(|&(_target, timestamp)| timestamp)
RECURSIVE SortByTimestamp(_)
SortByTimestamp(found) ==
    IF found = {} THEN <<>>
    ELSE LET first == CHOOSE pair \in found :
                          \A other \in found : pair[2] <= other[2]
         IN <<first>> \o SortByTimestamp(found \ {first})

\* the nick or channel name of a TargetId
TargetName(target) == IF target = "c1" THEN Str("#chan") ELSE Str("nick")

\* utils::format_timestamp
format_timestamp(timestamp) == [server_time |-> timestamp]

\* the handler's list_targets from its await on: sort, batch, one
\* ChatHistoryTarget per target
list_targets_batch(found_targets) ==
    LET sorted == SortByTimestamp(found_targets)
    IN [message |-> "BATCH", batch |-> "draft/chathistory-targets",
        arguments |-> <<>>,
        messages |-> [i \in 1 .. Len(sorted) |->
                         [target |-> TargetName(sorted[i][1]),
                          timestamp |-> format_timestamp(sorted[i][2])]]]

\* list_targets returns and the handler runs to its end
list_targets_returns ==
    /\ handler.pc = "await"
    /\ handler.calls[1].service = "list_targets"
    /\ LET service_call == handler.calls[1]
           found_targets == WalkTargets(Len(ServiceHistory),
                                        service_call.lower_ts,
                                        service_call.upper_ts,
                                        service_call.limit, {})
       IN handler' = [handler EXCEPT
                          !.pc = "done",
                          !.sent = Append(@, list_targets_batch(found_targets)),
                          !.result = Some(Ok("()"))]
    /\ UNCHANGED log_vars
    /\ UNCHANGED outside_handler

\* the command is over; the handler is ready for the next one
command_done ==
    /\ handler.pc = "done"
    /\ handler' = NoCommand
    /\ UNCHANGED log_vars
    /\ UNCHANGED outside_handler

(***************************************************************************)
(* The IPC channel (sable_ipc/src/lib.rs): a Sender and a Receiver, each   *)
(* around one socket of a UnixDatagram pair. A socket is named after the   *)
(* role it was made for; shutdown is the sequence of the shutdown calls    *)
(* made on it, and it is open until its value is dropped.                  *)
(***************************************************************************)
outside_ipc == <<log_vars, handler, names>>

\* mutant: the socket is read out of the field and left there
take_Peek(option) == [taken |-> option, left |-> option]

\* Option::take: the value moves out and None is left behind
take(option) == [taken |-> option, left |-> None]

\* UnixDatagram::shutdown(how)
Shutdown(sockets, socket, how) ==
    [sockets EXCEPT ![socket].shutdown = Append(@, how)]

\* the socket's value is dropped: its descriptor is closed
Close(sockets, socket) == [sockets EXCEPT ![socket].open = FALSE]

\* Drop for Sender / Drop for Receiver; the fields are dropped after it
Drop(end, sockets) ==
    LET taking == take(end.socket)
        shut == IF taking.taken # None
                THEN Close(Shutdown(sockets, Unwrap(taking.taken), "Both"),
                           Unwrap(taking.taken))
                ELSE sockets
    IN IF taking.left # None THEN Close(shut, Unwrap(taking.left)) ELSE shut

\* channel: UnixDatagram::pair() and the two endpoints around its sockets
channel ==
    /\ \A r \in Roles : ipc.ends[r].state = "none"
    /\ ipc' = [ipc EXCEPT
                  !.ends = [r \in Roles |-> [state |-> "alive", socket |-> Some(r)]],
                  !.sockets = [r \in Roles |-> [open |-> TRUE, shutdown |-> <<>>]]]
    /\ UNCHANGED outside_ipc

\* Sender::send: the datagram is queued when the peer socket takes it
send ==
    /\ ipc.ends["Sender"].state = "alive"
    /\ ipc.ends["Sender"].socket # None
    /\ ipc.sockets["Receiver"].open
    /\ ipc.sockets["Receiver"].shutdown = <<>>
    /\ ipc.in_flight < IpcMaxInFlight
    /\ ipc' = [ipc EXCEPT !.in_flight = @ + 1]
    /\ UNCHANGED outside_ipc

\* Receiver::recv: one datagram is read
recv ==
    /\ ipc.ends["Receiver"].state = "alive"
    /\ ipc.ends["Receiver"].socket # None
    /\ ipc.in_flight > 0
    /\ ipc' = [ipc EXCEPT !.in_flight = @ - 1]
    /\ UNCHANGED outside_ipc

\* Sender::into_raw_fd / Receiver::into_raw_fd: the socket is taken out of
\* the endpoint; into_std gives the descriptor or fails, and then the
\* socket's value is dropped; the endpoint is dropped when the call returns
into_raw_fd(r, into_std_ok) ==
    /\ ipc.ends[r].state = "alive"
    /\ ipc.handovers < IpcMaxHandover
    /\ LET taking == take(ipc.ends[r].socket)
           self == [ipc.ends[r] EXCEPT !.socket = taking.left]
           after == IF into_std_ok THEN ipc.sockets
                    ELSE Close(ipc.sockets, Unwrap(taking.taken))
       IN /\ taking.taken # None
          /\ ipc' = [ipc EXCEPT
                        !.raw[r] = IF into_std_ok THEN taking.taken ELSE None,
                        !.sockets = Drop(self, after),
                        !.ends[r] = [state |-> IF into_std_ok THEN "consumed"
                                               ELSE "failed",
                                     socket |-> None],
                        !.handovers = @ + 1]
    /\ UNCHANGED outside_ipc

\* Sender::from_raw_fd / Receiver::from_raw_fd, on a descriptor that
\* into_raw_fd gave: from_std makes the socket or fails, and then the
\* std socket is dropped
from_raw_fd(r, from_std_ok) ==
    /\ ipc.raw[r] # None
    /\ LET fd == Unwrap(ipc.raw[r])
       IN ipc' = [ipc EXCEPT
                     !.raw[r] = None,
                     !.sockets = IF from_std_ok THEN @ ELSE Close(@, fd),
                     !.ends[r] = IF from_std_ok
                                 THEN [state |-> "alive", socket |-> Some(fd)]
                                 ELSE [state |-> "failed", socket |-> None]]
    /\ UNCHANGED outside_ipc

\* the endpoint goes out of scope
Drop_drop(r) ==
    /\ ipc.ends[r].state = "alive"
    /\ ipc' = [ipc EXCEPT
                  !.sockets = Drop(ipc.ends[r], @),
                  !.ends[r] = [state |-> "dropped", socket |-> None]]
    /\ UNCHANGED outside_ipc

(***************************************************************************)
(* send_channel_names (sable_ircd/src/utils/channel_names.rs). A member is *)
(* the length of its nick, user name and visible host, its permissions,    *)
(* what the policy says about seeing it and whether its user is found; a   *)
(* string is its length, a line also the members written to it.            *)
(***************************************************************************)
outside_names == <<log_vars, handler, ipc>>

CONTENT_LEN == 300

\* permissions().to_prefixes(): the prefix of every membership flag held,
\* '@' for Op and '+' for Voice
to_prefixes(permissions) ==
    (IF "Op" \in permissions THEN <<"@">> ELSE <<>>)
        \o (IF "Voice" \in permissions THEN <<"+">> ELSE <<>>)

\* permissions().to_highest_prefix()
to_highest_prefix(permissions) ==
    IF "Op" \in permissions THEN Some("@")
    ELSE IF "Voice" \in permissions THEN Some("+")
    ELSE None

\* let p = ...: every prefix with multi-prefix, else the highest or ""
Prefixes(member, with_multiprefix) ==
    IF with_multiprefix
    THEN to_prefixes(member.permissions)
    ELSE IF to_highest_prefix(member.permissions) # None
    THEN <<Unwrap(to_highest_prefix(member.permissions))>>
    ELSE <<>>

\* let n = ...: the length of "nick!user@host" or of "nick"
NameLen(member, with_userhost) ==
    IF with_userhost
    THEN member.nick + 1 + member.user + 1 + member.visible_host
    ELSE member.nick

\* current_line.write_fmt(format_args!("{p}{n} "))
Write(line, id, p, n) ==
    [items |-> Append(line.items, id), len |-> line.len + Len(p) + n + 1]

\* current_line.pop()
Pop(line) == [line EXCEPT !.len = IF @ > 0 THEN @ - 1 ELSE 0]

\* if current_line.len() + n.len() + 2 > CONTENT_LEN
StartsNewLine(line, n) == line.len + n + 2 > CONTENT_LEN

\* the member is left out: the recipient is not on the channel and the
\* policy does not let it see the member
IsSkipped(user_is_on_chan, member) == ~user_is_on_chan /\ ~member.can_see

\* the call and what precedes its loop
send_channel_names(user_is_on_chan, with_userhost, with_multiprefix) ==
    /\ names.pc = "idle"
    /\ names' = [NoNames EXCEPT !.pc = "loop",
                                !.user_is_on_chan = user_is_on_chan,
                                !.with_userhost = with_userhost,
                                !.with_multiprefix = with_multiprefix]
    /\ UNCHANGED outside_names

\* for member in channel.members(): one turn of the loop
for_member(member) ==
    /\ names.pc = "loop"
    /\ LET id == Len(names.members) + 1
           p == Prefixes(member, names.with_multiprefix)
           n == NameLen(member, names.with_userhost)
           full == StartsNewLine(names.current_line, n)
           line == IF full THEN String_new ELSE names.current_line
       IN names' =
              IF IsSkipped(names.user_is_on_chan, member)
              THEN [names EXCEPT !.members = Append(@, member)]
              ELSE IF ~member.user_found
              THEN [names EXCEPT !.members = Append(@, member),
                                 !.pc = "done",
                                 !.result = Some("Err")]
              ELSE [names EXCEPT
                       !.members = Append(@, member),
                       !.lines = IF full THEN Append(@, names.current_line) ELSE @,
                       !.current_line = Write(line, id, p, n)]
    /\ UNCHANGED outside_names

NamesReply(line) == [numeric |-> "NamesReply", line |-> line]

EndOfNames == [numeric |-> "EndOfNames"]

\* after the loop: the last line loses its trailing space and every line
\* is sent, and then the end of the names
send_lines ==
    /\ names.pc = "loop"
    /\ LET lines == Append(names.lines, Pop(names.current_line))
       IN names' = [names EXCEPT
                       !.pc = "done",
                       !.current_line = Pop(@),
                       !.lines = lines,
                       !.sent = [i \in 1 .. Len(lines) |-> NamesReply(lines[i])]
                                    \o <<EndOfNames>>,
                       !.result = Some("Ok")]
    /\ UNCHANGED outside_names

(***************************************************************************)
(* Specifications                                                          *)
(***************************************************************************)
\* the add_entry_for_user calls made so far
AppendCalls == Len(appended["t1"]) + Len(appended["t2"])

\* two threads adding, appending and expiring, in any interleaving
Next ==
    \/ \E t \in Threads, in \in AddInputs :
           /\ Size(entries) < MaxSize
           /\ add_push_with_index(t, "NewMessage", in[1], in[2])
    \/ \E t \in Threads : add_finalize(t)
    \/ \E t \in Threads, u \in Users, id \in EntryIdsIn :
           /\ AppendCalls < MaxAppend
           /\ add_entry_for_user(t, u, id)
    \/ \E t \in Threads : add_entry_for_user_lock(t)
    \/ \E t \in Threads : add_entry_for_user_Some(t)
    \/ \E t \in Threads : add_entry_for_user_upgrade(t)
    \/ \E t \in Threads : add_entry_for_user_None(t)
    \/ \E older_than \in Thresholds : expire_entries(older_than)

Spec == Init /\ [][Next]_vars

\* one thread and one user: add, add_entry_for_user and expire_entries in
\* sequence, and between them an iterator run from its creation to its drop
SeqNext ==
    \/ \E ts \in Timestamps :
           /\ Size(entries) < SeqMaxSize
           /\ ~iter["t1"].alive
           /\ add_push_with_index("t1", "NewMessage", "e1", ts)
    \/ add_finalize("t1")
    \/ \E id \in 0 .. (SeqMaxSize - 1) :
           /\ AppendCalls < SeqMaxUserLog
           /\ id < Size(entries)
           /\ ~iter["t1"].alive
           /\ add_entry_for_user("t1", "u1", id)
    \/ add_entry_for_user_lock("t1")
    \/ add_entry_for_user_Some("t1")
    \/ add_entry_for_user_upgrade("t1")
    \/ add_entry_for_user_None("t1")
    \/ entries_for_user("t1", "u1")
    \/ entries_for_user_read("t1")
    \/ entries_for_user_reverse("t1", "u1")
    \/ entries_for_user_reverse_read("t1")
    \/ UserHistoryLogIterator_next("t1")
    \/ ReverseUserHistoryLogIterator_next("t1")
    \/ drop_iterator("t1")
    \/ \E older_than \in Thresholds : expire_entries(older_than)

SeqSpec == Init /\ [][SeqNext]_vars

\* one thread adding events of every kind
KindNext ==
    \/ \E d \in NetworkStateChange : add_None("t1", d, "e1", 100)
    \/ \E d \in NetworkStateChange :
           /\ Size(entries) < KindMaxSize
           /\ add_push_with_index("t1", d, "e1", 100)
    \/ add_finalize("t1")
    \/ /\ AppendCalls < KindMaxSize + 1
       /\ add_entry_for_user("t1", "u1", 0)
    \/ add_entry_for_user_lock("t1")
    \/ add_entry_for_user_Some("t1")
    \/ add_entry_for_user_upgrade("t1")
    \/ add_entry_for_user_None("t1")

KindSpec == Init /\ [][KindNext]_vars

\* two threads adding, appending and iterating, in any interleaving: a
\* thread may start a call while its iterator is alive
ConcNext ==
    \/ \E t \in Threads :
           /\ Size(entries) < ConcMaxSize
           /\ add_push_with_index(t, "NewMessage", "e1", 100)
    \/ \E t \in Threads : add_finalize(t)
    \/ \E t \in Threads, u \in Users :
           /\ AppendCalls < ConcMaxAppend
           /\ add_entry_for_user(t, u, 0)
    \/ \E t \in Threads : add_entry_for_user_lock(t)
    \/ \E t \in Threads : add_entry_for_user_Some(t)
    \/ \E t \in Threads : add_entry_for_user_upgrade(t)
    \/ \E t \in Threads : add_entry_for_user_None(t)
    \/ \E t \in Threads, u \in Users : entries_for_user(t, u)
    \/ \E t \in Threads : entries_for_user_read(t)
    \/ \E t \in Threads, u \in Users : entries_for_user_reverse(t, u)
    \/ \E t \in Threads : entries_for_user_reverse_read(t)
    \/ \E t \in Threads : UserHistoryLogIterator_next(t)
    \/ \E t \in Threads : ReverseUserHistoryLogIterator_next(t)
    \/ \E t \in Threads : drop_iterator(t)

ConcSpec == Init /\ [][ConcNext]_vars

\* the scheduling: a thread inside a call keeps running, the lock hands
\* itself to a thread that waits for it (parking_lot's eventual fairness),
\* and an iterator is a local value its thread drops in the end
ConcFairness ==
    \A t \in Threads :
        /\ WF_vars(add_finalize(t))
        /\ SF_vars(add_entry_for_user_lock(t))
        /\ WF_vars(add_entry_for_user_Some(t))
        /\ WF_vars(add_entry_for_user_upgrade(t))
        /\ WF_vars(add_entry_for_user_None(t))
        /\ SF_vars(entries_for_user_read(t))
        /\ SF_vars(entries_for_user_reverse_read(t))
        /\ SF_vars(drop_iterator(t))

LiveSpec == ConcSpec /\ ConcFairness

\* the requests the handler is given
Subcommands ==
    {"TARGETS", "targets", "LATEST", "BEFORE", "AFTER", "AROUND", "BETWEEN",
     "BOGUS"}

MsgRefs ==
    {<<"timestamp", "=", "100">>, <<"timestamp", "=", "200">>,
     <<"timestamp", "=", "not-a-number">>, <<"timestamp", "=", "1", "=", "2">>,
     <<"msgid", "=", "abc123">>, <<"bogus">>}

Limits == {Str("1"), Str("+2"), Str("0"), Str("-1"), Str("abc"), EmptyStr}

Args1 == MsgRefs \cup KnownTargets \cup {Str("nosuch")}

Args2 == MsgRefs \cup {Str("*")}

Args3 == MsgRefs \cup Limits

Args4 == {None, Some(Str("1")), Some(Str("0")), Some(Str("abc"))}

\* what get_entries may return
Replies ==
    {Ok(<<>>),
     Ok(<<HistoricalEvent_Message(1, Some(Str("#chan")))>>),
     Ok(<<HistoricalEvent_Message(1, Some(Str("#chan"))),
          HistoricalEvent_Message(2, None)>>),
     Err(InvalidTarget),
     Err(InternalError("boom"))}

\* one CHATHISTORY command after the other
HandlerNext ==
    \/ /\ handler.pc = "idle"
       /\ \E subcommand \in Subcommands, arg_1 \in Args1, arg_2 \in Args2,
             arg_3 \in Args3, arg_4 \in Args4 :
              handle_chathistory("u1", subcommand, arg_1, arg_2, arg_3, arg_4)
    \/ /\ handler.pc = "await"
       /\ \E reply \in Replies, conn_user \in ConnUsers :
              get_entries_returns(reply, conn_user)
    \/ list_targets_returns
    \/ command_done

HandlerSpec == Init /\ [][HandlerNext]_vars

\* two threads appending: both users' indices come to exist, and calls for
\* them overlap
AppendNext ==
    \/ \E t \in Threads, u \in Users :
           /\ AppendCalls < AppendMaxCalls
           /\ add_entry_for_user(t, u, 0)
    \/ \E t \in Threads : add_entry_for_user_lock(t)
    \/ \E t \in Threads : add_entry_for_user_Some(t)
    \/ \E t \in Threads : add_entry_for_user_upgrade(t)
    \/ \E t \in Threads : add_entry_for_user_None(t)

AppendSpec == Init /\ [][AppendNext]_vars

\* the add_entry_for_user calls the three threads have made
LockAppendCalls == AppendCalls + Len(appended["t3"])

\* three threads appending for u1 and u2 and iterating u1; a thread makes no
\* call while its iterator is alive
LockNext ==
    \/ \E t \in LockThreads, u \in Users :
           /\ LockAppendCalls < LockMaxAppend
           /\ ~iter[t].alive
           /\ add_entry_for_user(t, u, 0)
    \/ \E t \in LockThreads : add_entry_for_user_lock(t)
    \/ \E t \in LockThreads : add_entry_for_user_Some(t)
    \/ \E t \in LockThreads : add_entry_for_user_upgrade(t)
    \/ \E t \in LockThreads : add_entry_for_user_None(t)
    \/ \E t \in LockThreads : entries_for_user(t, "u1")
    \/ \E t \in LockThreads : entries_for_user_read(t)
    \/ \E t \in LockThreads : entries_for_user_reverse(t, "u1")
    \/ \E t \in LockThreads : entries_for_user_reverse_read(t)
    \/ \E t \in LockThreads : UserHistoryLogIterator_next(t)
    \/ \E t \in LockThreads : ReverseUserHistoryLogIterator_next(t)
    \/ \E t \in LockThreads : drop_iterator(t)

LockSpec == Init /\ [][LockNext]_vars

\* thread t2 adds, appends to u1's index and expires while thread t1
\* iterates over u1's index, forward or in reverse, in any interleaving
IterNext ==
    \/ \E in \in AddInputs :
           /\ Size(entries) < IterMaxSize
           /\ add_push_with_index("t2", "NewMessage", in[1], in[2])
    \/ add_finalize("t2")
    \/ \E id \in 0 .. (IterMaxSize - 1) :
           /\ Len(appended["t2"]) < IterMaxAppend
           /\ id < Size(entries)
           /\ add_entry_for_user("t2", "u1", id)
    \/ add_entry_for_user_lock("t2")
    \/ add_entry_for_user_Some("t2")
    \/ add_entry_for_user_upgrade("t2")
    \/ add_entry_for_user_None("t2")
    \/ entries_for_user("t1", "u1")
    \/ entries_for_user_read("t1")
    \/ entries_for_user_reverse("t1", "u1")
    \/ entries_for_user_reverse_read("t1")
    \/ UserHistoryLogIterator_next("t1")
    \/ ReverseUserHistoryLogIterator_next("t1")
    \/ drop_iterator("t1")
    \/ \E older_than \in Thresholds : expire_entries(older_than)

IterSpec == Init /\ [][IterNext]_vars

\* the IPC channel: made once, used, and its endpoints dropped or turned
\* into raw descriptors and back
IpcNext ==
    \/ channel
    \/ send
    \/ recv
    \/ \E r \in Roles, into_std_ok \in BOOLEAN : into_raw_fd(r, into_std_ok)
    \/ \E r \in Roles, from_std_ok \in BOOLEAN : from_raw_fd(r, from_std_ok)
    \/ \E r \in Roles : Drop_drop(r)

IpcSpec == Init /\ [][IpcNext]_vars

\* the lengths of the nicks of the members, and of their user names and
\* visible hosts
NickLens == {6, 289, 298, 299}

UserLens == {1}

HostLens == {7}

\* the permissions of the members
PermissionSets == {{}, {"Voice"}, {"Op", "Voice"}}

Members ==
    [nick : NickLens, user : UserLens, visible_host : HostLens,
     permissions : PermissionSets, can_see : BOOLEAN, user_found : BOOLEAN]

\* one call of send_channel_names over a channel of up to NamesMaxMembers
\* members
NamesNext ==
    \/ \E user_is_on_chan, with_userhost, with_multiprefix \in BOOLEAN :
           send_channel_names(user_is_on_chan, with_userhost, with_multiprefix)
    \/ /\ names.pc = "loop"
       /\ Len(names.members) < NamesMaxMembers
       /\ \E member \in Members :
              /\ (names.user_is_on_chan => member.can_see)
              /\ for_member(member)
    \/ send_lines

NamesSpec == Init /\ [][NamesNext]_vars

(***************************************************************************)
(* Properties                                                              *)
(***************************************************************************)
Ids(log) == [i \in 1 .. Size(log) |-> log.slots[i].val]

UserIds(u) == IF u \in DOMAIN user_logs THEN Ids(user_logs[u]) ELSE <<>>

\* the ids add has returned so far
ReturnedIds == {Unwrap(added[i].ret) : i \in {j \in 1 .. Len(added) : added[j].ret # None}}

\* C1: the k-th index assigned by concurrent adds is returned as id k - 1:
\* the returned ids are distinct, gapless from the log's first size and
\* strictly increasing in assignment order, one per unit of size.
C1_IdsGapless ==
    /\ Len(added) = Size(entries)
    /\ \A i \in 1 .. Len(added) :
           added[i].ret = None \/ added[i].ret = Some(i - 1)

\* two adds overlapped and the one assigned second returned first
C1_Witness ==
    /\ Len(added) = 2
    /\ added[1].ret = None
    /\ added[2].ret = Some(1)

\* C8: while it is not trimmed, the entry of a returned id is the one get
\* returns, with that id and the timestamp, source_event and details passed
\* to add; and no visible entry carries an id other than its index.
C8_StoredEntry ==
    /\ \A i \in 1 .. Len(added) :
           (added[i].ret # None /\ Unwrap(added[i].ret) >= StartIndex(entries))
               => get(Unwrap(added[i].ret)) =
                      Some([id |-> Unwrap(added[i].ret),
                            timestamp |-> added[i].timestamp,
                            source_event |-> added[i].source_event,
                            details |-> added[i].details])
    /\ \A index \in 0 .. (Size(entries) - 1) :
           get(index) # None => Unwrap(get(index)).id = index

\* the entry at index 1 is visible while the push of index 0 is not yet
C8_Witness ==
    /\ Size(entries) = 2
    /\ ~entries.slots[1].live
    /\ get(1) # None
    /\ \E i \in 1 .. Len(added) : added[i].ret = Some(1)

\* C7, as stated: whatever id add_entry_for_user is called with, the id it
\* appends is not greater than the primary log's size at that moment.
C7_AnyIdWithinSize ==
    [][\A u \in DOMAIN user_logs' :
           Len(UserIds(u)') > Len(UserIds(u))
               => UserIds(u)'[Len(UserIds(u)')] <= Size(entries)]_vars

\* C7, amended: an id that add has returned is not greater than the primary
\* log's size at the moment it is appended to a per-user index; ids below
\* the primary log's start_index may be present.
C7_ReturnedIdWithinSize ==
    [][\A u \in DOMAIN user_logs' :
           (/\ Len(UserIds(u)') > Len(UserIds(u))
            /\ UserIds(u)'[Len(UserIds(u)')] \in ReturnedIds)
               => UserIds(u)'[Len(UserIds(u)')] <= Size(entries)]_vars

\* an index holds a returned id that lies below the primary log's floor
C7_Witness ==
    \E u \in DOMAIN user_logs :
        \E i \in 1 .. Size(user_logs[u]) :
            /\ UserIds(u)[i] \in ReturnedIds
            /\ UserIds(u)[i] < StartIndex(entries)

\* the calls of thread t for user u whose push has happened, as ids
Pushed(t, u) ==
    LET calls == IF pc[t] \in {"aeu_lock", "aeu_match", "aeu_upgrade"}
                 THEN SubSeq(appended[t], 1, Len(appended[t]) - 1)
                 ELSE appended[t]
        ids == SelectSeq(calls, LAMBDA c : c.user_id = u)
    IN [i \in 1 .. Len(ids) |-> ids[i].entry_id]

\* s is an interleaving of a and b that keeps the order of each
RECURSIVE IsShuffle(_, _, _)
IsShuffle(s, a, b) ==
    IF s = <<>>
    THEN a = <<>> /\ b = <<>>
    ELSE \/ a # <<>> /\ Head(a) = Head(s) /\ IsShuffle(Tail(s), Tail(a), b)
         \/ b # <<>> /\ Head(b) = Head(s) /\ IsShuffle(Tail(s), a, Tail(b))

\* C9: under concurrent add_entry_for_user calls every user's index is
\* inserted at most once and holds exactly the ids pushed for that user,
\* once per call, each thread's ids in the order of its calls.
C9_IndexHoldsAppends ==
    \A u \in Users :
        /\ created[u] = IF u \in DOMAIN user_logs THEN 1 ELSE 0
        /\ IsShuffle(UserIds(u), Pushed("t1", u), Pushed("t2", u))

\* both threads made the first append for u1 at once, and both are done
C9_Witness ==
    /\ \A t \in Threads :
           /\ pc[t] = "idle"
           /\ Len(appended[t]) = 1
           /\ appended[t][1].user_id = "u1"
    /\ appended["t1"][1].entry_id # appended["t2"][1].entry_id
    /\ Len(UserIds("u1")) = 2

\* C10: start_index and size of the primary log and of every per-user index
\* never decrease, no index disappears, and start_index <= size throughout.
C10_Monotonic ==
    /\ [](/\ StartIndex(entries) <= Size(entries)
          /\ \A u \in DOMAIN user_logs :
                 StartIndex(user_logs[u]) <= Size(user_logs[u]))
    /\ [][/\ StartIndex(entries) <= StartIndex(entries')
          /\ Size(entries) <= Size(entries')
          /\ \A u \in DOMAIN user_logs :
                 /\ u \in DOMAIN user_logs'
                 /\ StartIndex(user_logs[u]) <= StartIndex(user_logs'[u])
                 /\ Size(user_logs[u]) <= Size(user_logs'[u])]_vars

\* expire_entries has moved the floor of the primary log and of an index
C10_Witness ==
    /\ StartIndex(entries) > 0
    /\ \E u \in DOMAIN user_logs : StartIndex(user_logs[u]) > 0

(***************************************************************************)
(* Properties of the iterators and of expiry                               *)
(***************************************************************************)
RECURSIVE Ascending(_)
Ascending(S) ==
    IF S = {} THEN <<>>
    ELSE LET m == CHOOSE x \in S : \A y \in S : x <= y
         IN <<m>> \o Ascending(S \ {m})

RECURSIVE Descending(_)
Descending(S) ==
    IF S = {} THEN <<>>
    ELSE LET m == CHOOSE x \in S : \A y \in S : x >= y
         IN <<m>> \o Descending(S \ {m})

\* the positions of u's index, from its start_index, whose id has a primary entry
PresentPositions(u) ==
    IF u \in DOMAIN user_logs
    THEN {p \in StartIndex(user_logs[u]) .. (Size(user_logs[u]) - 1) :
              get(UserIds(u)[p + 1]) # None}
    ELSE {}

EntriesAt(u, positions) ==
    [i \in 1 .. Len(positions) |-> Unwrap(get(UserIds(u)[positions[i] + 1]))]

IsPrefix(a, b) == Len(a) <= Len(b) /\ a = SubSeq(b, 1, Len(a))

\* C2: a finished forward iterator has yielded, in ascending position order,
\* the primary entries of the ids of the user's index from start_index
\* (inclusive) to its end, the ids without primary entry skipped.
C2_ForwardYields ==
    \A t \in Threads :
        (iter[t].alive /\ ~iter[t].reverse /\ iter[t].done /\ iter[t].clean)
            => iter[t].out =
                   EntriesAt(iter[t].user, Ascending(PresentPositions(iter[t].user)))

\* C3: a reverse iterator yields, newest first, the primary entries of the
\* ids of the user's index from its last position down to start_index
\* (inclusive), the ids without primary entry skipped: what it has yielded
\* is always the beginning of that sequence and, once it ends, all of it.
C3_ReverseYields ==
    \A t \in Threads :
        (iter[t].alive /\ iter[t].reverse /\ iter[t].clean)
            => LET all == EntriesAt(iter[t].user,
                                    Descending(PresentPositions(iter[t].user)))
               IN /\ IsPrefix(iter[t].out, all)
                  /\ iter[t].done => iter[t].out = all

\* the index [1, 0, 2] with entry 0 trimmed: the reverse iterator has ended
\* after yielding entry 2 and entry 1
C3_Witness ==
    /\ UserIds("u1") = <<1, 0, 2>>
    /\ StartIndex(entries) = 1
    /\ iter["t1"].alive /\ iter["t1"].reverse /\ iter["t1"].done
    /\ Len(iter["t1"].out) = 2
    /\ iter["t1"].out[1].id = 2
    /\ iter["t1"].out[2].id = 1

TimestampAt(i) == entries.slots[i + 1].val.timestamp

SortedTimestamps ==
    \A i, j \in Indices(entries) : i <= j => TimestampAt(i) <= TimestampAt(j)

\* every add is finished and u's index holds the id of each, in order
IndexedAfterEachAdd(u) ==
    /\ \A i \in Indices(entries) : entries.slots[i + 1].live
    /\ UserIds(u) = [i \in 1 .. Size(entries) |-> i - 1]

\* C4: events added with non-decreasing timestamps, each indexed for the
\* user right after its add: a finished forward iterator has yielded all
\* retained entries in ascending order, and the first expire_entries(T)
\* retains exactly the entries with timestamp >= T.
C4_ForwardAfterExpiry ==
    /\ [](\A t \in Threads :
              (/\ iter[t].alive /\ ~iter[t].reverse /\ iter[t].done /\ iter[t].clean
               /\ SortedTimestamps
               /\ IndexedAfterEachAdd(iter[t].user))
                  => iter[t].out =
                         [i \in 1 .. (Size(entries) - StartIndex(entries)) |->
                             entries.slots[StartIndex(entries) + i].val])
    /\ [][(expired' # None /\ StartIndex(entries) = 0 /\ SortedTimestamps)
              => \A i \in Indices(entries) :
                     (Get(entries', i) # None) <=> (TimestampAt(i) >= Unwrap(expired'))]_vars

\* C5: expire_entries(T) moves start_index to the first index, at or after
\* the old start_index, whose entry has timestamp >= T (or to size) and
\* touches nothing else: get returns nothing below it and every other
\* entry as before.
C5_ExpiryPrefix ==
    [][expired' # None
          => LET older_than == Unwrap(expired')
                 kept == {i \in StartIndex(entries) .. Size(entries) :
                              i = Size(entries) \/ TimestampAt(i) >= older_than}
                 stop == CHOOSE i \in kept : \A j \in kept : i <= j
             IN /\ StartIndex(entries') = stop
                /\ entries'.slots = entries.slots
                /\ \A i \in Indices(entries) :
                       Get(entries', i) = IF i < stop THEN None ELSE Get(entries, i)]_vars

\* timestamps 100, 300, 200 and T = 250: only the first entry is gone, the
\* entry of timestamp 200 behind the one of 300 is retained
C5_Witness ==
    /\ expired = Some(250)
    /\ Size(entries) = 3
    /\ TimestampAt(0) = 100 /\ TimestampAt(1) = 300 /\ TimestampAt(2) = 200
    /\ StartIndex(entries) = 1
    /\ get(0) = None /\ get(2) # None

\* C6: add with an excluded kind returns None and changes neither the
\* primary log nor any per-user index; add with an allow-listed kind
\* returns Some and raises size by exactly one.
C6_AllowList ==
    /\ [](/\ rejected \subseteq ExcludedKinds
          /\ \A i \in 1 .. Len(added) :
                 /\ added[i].details \in StoredKinds
                 /\ added[i].ret = None =>
                        \E t \in Threads : pc[t] = "add_finalize" /\ call[t].index = i - 1)
    /\ [][/\ (rejected' # rejected) =>
                 (entries' = entries /\ user_logs' = user_logs)
          /\ (added' # added) =>
                 \/ /\ Len(added') = Len(added) + 1
                    /\ Size(entries') = Size(entries) + 1
                 \/ /\ Len(added') = Len(added)
                    /\ Size(entries') = Size(entries)
                    /\ \E i \in 1 .. Len(added) :
                           added[i].ret = None /\ added'[i].ret = Some(i - 1)]_vars

\* a user mode change was rejected while the log and an index hold entries
C6_Witness ==
    /\ rejected = Some("UserModeChange")
    /\ Size(entries) = 1
    /\ entries.slots[1].val.details = "NewMessage"
    /\ Len(UserIds("u1")) > 0

(***************************************************************************)
(* Properties of the lock around user_logs                                 *)
(***************************************************************************)
\* the places where a call waits for the lock: upgradable read, upgrade to
\* write, read
LockWaits == {"aeu_lock", "aeu_upgrade", "efu_lock", "efur_lock"}

\* C11: no reachable state is a deadlock: a thread that waits for the lock
\* around user_logs (read, upgradable read or upgrade to write) acquires it
\* in the end, whatever the threads' sequences of add, add_entry_for_user
\* and iterator creations, advances and drops.
C11_EveryWaiterAcquires ==
    \A t \in Threads :
        \A w \in LockWaits : (pc[t] = w) ~> (pc[t] # w)

\* thread t is inside add_entry_for_user for a user whose index exists
AppendsToExisting(t) ==
    /\ pc[t] \in {"aeu_lock", "aeu_match"}
    /\ call[t].user_id \in DOMAIN user_logs

IteratorHoldsGuard == \E t \in LockThreads : iter[t].alive /\ iter[t].user_log

\* a thread holds the upgradable read lock for a user without index, or
\* waits for its upgrade
InsertionInProgress ==
    \E t \in LockThreads :
        \/ pc[t] = "aeu_upgrade"
        \/ pc[t] = "aeu_match" /\ call[t].user_id \notin DOMAIN user_logs

\* the calls that wait for nothing but, at most, an append that is itself
\* about to push and release: iterator creations and appends
OthersProceed ==
    /\ \A t \in LockThreads :
           pc[t] = "efu_lock" => ENABLED entries_for_user_read(t)
    /\ \A t \in LockThreads :
           pc[t] = "efur_lock" => ENABLED entries_for_user_reverse_read(t)
    /\ \A t \in LockThreads :
           (pc[t] = "aeu_match" /\ call[t].user_id \in DOMAIN user_logs)
               => ENABLED add_entry_for_user_Some(t)
    /\ \A t \in LockThreads :
           (pc[t] = "aeu_lock" /\ call[t].user_id \in DOMAIN user_logs)
               => \/ ENABLED add_entry_for_user_lock(t)
                  \/ \E s \in LockThreads \ {t} :
                         /\ pc[s] = "aeu_match"
                         /\ ENABLED add_entry_for_user_Some(s)

\* an alive iterator for a user with an index holds a read lock, and the
\* insertion of a new user's index waits for it
IteratorBlocksInsertion ==
    /\ \A t \in LockThreads :
           (iter[t].alive /\ iter[t].user_log) => lock.readers > 0
    /\ IteratorHoldsGuard =>
           \A t \in LockThreads :
               pc[t] = "aeu_upgrade" => ~ENABLED add_entry_for_user_None(t)

Request == Unwrap(handler.request)

Normalized == ToAsciiUppercase(Request.subcommand)

IsTargets == Normalized = "TARGETS"

\* the forms of a message reference, read off the argument itself
IsTimestampRef(arg) == Len(arg) >= 2 /\ arg[1] = "timestamp" /\ arg[2] = "="

IsGoodTimestampRef(arg) ==
    IsTimestampRef(arg) /\ Len(arg) = 3 /\ arg[3] \in DOMAIN Numerals

IsMsgidRef(arg) == Len(arg) >= 2 /\ arg[1] = "msgid" /\ arg[2] = "="

TimestampOf(arg) == Numerals[arg[3]]

IsPositiveInteger(arg) == arg \in {Str("1"), Str("2"), Str("+2"), Str("100"), Str("200")}

\* the failure the handler returned, if it returned one
Returned == IF handler.result = None THEN None ELSE Unwrap(handler.result).err

\* the failures the client gets: the returned one and the FAIL messages sent
Failures ==
    Returned \cup {handler.sent[i].fail :
                      i \in {j \in 1 .. Len(handler.sent) :
                                 handler.sent[j].message = "FAIL"}}

Batches == {i \in 1 .. Len(handler.sent) : handler.sent[i].message = "BATCH"}

\* C12: for a TARGETS request whose bounds arrive in either order, the
\* history service's list_targets(user, lower_ts, upper_ts, limit) is called
\* with the smaller timestamp as lower_ts and the larger as upper_ts.
C12_TargetsBoundsOrdered ==
    (handler.calls # <<>> /\ handler.calls[1].service = "list_targets")
        => LET t1 == TimestampOf(Request.arg_1)
               t2 == TimestampOf(Request.arg_2)
           IN /\ handler.calls[1].lower_ts = Some(IF t1 <= t2 THEN t1 ELSE t2)
              /\ handler.calls[1].upper_ts = Some(IF t1 <= t2 THEN t2 ELSE t1)

\* C13: a TARGETS request with bounds (t1, t2) makes the same history-service
\* query and sends the same response as the request with bounds (t2, t1).
C13_TargetsOrderIndependent ==
    (handler.pc = "done" /\ IsTargets /\ handler.calls # <<>>)
        => LET swapped == Parse(Request.source, Request.subcommand,
                                Request.arg_2, Request.arg_1, Request.arg_3,
                                Request.arg_4)
               query == Unwrap(swapped.service_call)
           IN /\ swapped.returned = None
              /\ swapped.service_call = Some(handler.calls[1])
              /\ handler.sent =
                     swapped.sent \o
                     <<list_targets_batch(
                           WalkTargets(Len(ServiceHistory), query.lower_ts,
                                       query.upper_ts, query.limit, {}))>>

\* the request TARGETS timestamp=200 timestamp=100 1 has been answered
C13_Witness ==
    /\ handler.pc = "done"
    /\ IsTargets
    /\ Request.arg_1 = <<"timestamp", "=", "200">>
    /\ Request.arg_2 = <<"timestamp", "=", "100">>
    /\ Len(handler.calls) = 1
    /\ Batches # {}

\* the limit argument of the request
LimitArg ==
    IF Normalized = "BETWEEN" THEN UnwrapOr(Request.arg_4, EmptyStr)
    ELSE Request.arg_3

\* the arguments the handler parses before the limit are all good
ParsesLimit ==
    /\ handler.request # None
    /\ \/ /\ IsTargets
          /\ IsGoodTimestampRef(Request.arg_1)
          /\ IsGoodTimestampRef(Request.arg_2)
       \/ /\ Normalized \in HistorySubcommands
          /\ Request.arg_1 \in KnownTargets
          /\ \/ IsGoodTimestampRef(Request.arg_2)
             \/ Normalized = "LATEST" /\ Request.arg_2 = Str("*")
          /\ Normalized = "BETWEEN" => IsGoodTimestampRef(Request.arg_3)

\* every argument of the request is good
AllArgumentsParse == ParsesLimit /\ IsPositiveInteger(LimitArg)

\* the first message reference the handler parses, and whether it gets to it
ParsesFirstRef ==
    /\ handler.request # None
    /\ \/ IsTargets
       \/ /\ Normalized \in HistorySubcommands
          /\ Request.arg_1 \in KnownTargets
          /\ ~(Normalized = "LATEST" /\ Request.arg_2 = Str("*"))

FirstRef == IF IsTargets THEN Request.arg_1 ELSE Request.arg_2

\* C14: parse_msgref maps every argument to exactly one outcome:
\* "timestamp=<parseable>" gives the timestamp, "timestamp=<unparseable>"
\* fails with INVALID_PARAMS, "msgid=<anything>" fails with
\* INVALID_MSGREFTYPE as unsupported, any other form, with or without '=',
\* fails with INVALID_MSGREFTYPE and a description naming the value.
C14_MsgrefOutcomes ==
    (ParsesFirstRef /\ handler.pc = "done")
        => LET failed == Returned # None
               fail == Unwrap(Returned)
           IN /\ (IsGoodTimestampRef(FirstRef) /\ AllArgumentsParse) =>
                     /\ Len(handler.calls) = 1
                     /\ IsTargets
                            => Some(TimestampOf(FirstRef)) \in
                                   {handler.calls[1].lower_ts,
                                    handler.calls[1].upper_ts}
                     /\ Normalized \in {"BEFORE", "AFTER", "AROUND"}
                            => handler.calls[1].request.ts = TimestampOf(FirstRef)
                     /\ Normalized = "BETWEEN"
                            => handler.calls[1].request.start_ts = TimestampOf(FirstRef)
                     /\ Normalized = "LATEST"
                            => handler.calls[1].request.to_ts = Some(TimestampOf(FirstRef))
              /\ (IsTimestampRef(FirstRef) /\ ~IsGoodTimestampRef(FirstRef)) =>
                     /\ failed /\ handler.calls = <<>>
                     /\ fail.code = "INVALID_PARAMS"
                     /\ fail.description.text = "Invalid timestamp"
              /\ IsMsgidRef(FirstRef) =>
                     /\ failed /\ handler.calls = <<>>
                     /\ fail.code = "INVALID_MSGREFTYPE"
                     /\ fail.description =
                            Description("msgid-based history requests are not supported yet",
                                        EmptyStr)
              /\ (~IsTimestampRef(FirstRef) /\ ~IsMsgidRef(FirstRef)) =>
                     /\ failed /\ handler.calls = <<>>
                     /\ fail.code = "INVALID_MSGREFTYPE"
                     /\ fail.description.value = FirstRef

\* BEFORE #chan msgid=abc123 1 was rejected as an unsupported reference
C14_Witness ==
    /\ handler.pc = "done"
    /\ Normalized = "BEFORE"
    /\ ParsesFirstRef
    /\ FirstRef = <<"msgid", "=", "abc123">>
    /\ Returned # None
    /\ Unwrap(Returned).code = "INVALID_MSGREFTYPE"

\* C15: every subcommand accepts its limit only when it parses as a positive
\* integer: with a limit that is missing (BETWEEN without arg_4), zero,
\* negative or not a number no history query is made, and the request, its
\* other arguments being good, is rejected with code INVALID_PARAMS.
C15_LimitPositive ==
    /\ handler.calls # <<>> => IsPositiveInteger(LimitArg)
    /\ (handler.pc = "done" /\ ParsesLimit /\ ~IsPositiveInteger(LimitArg))
           => /\ handler.calls = <<>>
              /\ Batches = {}
              /\ Returned # None
              /\ Unwrap(Returned).code = "INVALID_PARAMS"
              /\ Unwrap(Returned).description.text = "Invalid limit"

\* BETWEEN #chan timestamp=100 timestamp=200 without a limit was rejected
C15_Witness ==
    /\ handler.pc = "done"
    /\ Normalized = "BETWEEN"
    /\ ParsesLimit
    /\ Request.arg_4 = None
    /\ handler.calls = <<>>
    /\ Returned # None
    /\ Unwrap(Returned).code = "INVALID_PARAMS"

\* C16: in every execution of the handler the history service is invoked at
\* most once, and only when every argument has parsed; a request with a bad
\* timestamp, limit, message reference or subcommand ends with a failure
\* and without a call of the history service.
C16_ServiceAfterParsing ==
    handler.request # None =>
        /\ Len(handler.calls) <= 1
        /\ handler.calls # <<>> => AllArgumentsParse
        /\ handler.pc = "await" => handler.calls # <<>>
        /\ (handler.pc = "done" /\ ~AllArgumentsParse)
               => handler.calls = <<>> /\ Batches = {} /\ Failures # {}

\* a request with every argument good was answered after one call
C16_Witness ==
    /\ handler.pc = "done"
    /\ Normalized = "AROUND"
    /\ AllArgumentsParse
    /\ Len(handler.calls) = 1
    /\ Batches # {}

ErrorCodes ==
    {"INVALID_PARAMS", "INVALID_MSGREFTYPE", "INVALID_TARGET", "MESSAGE_ERROR"}

\* C17: every failure the handler reports carries the command CHATHISTORY,
\* one of the four codes, a context made of the subcommand, followed by the
\* target when the request has one, and a description.
C17_FailureShape ==
    \A fail \in Failures :
        /\ fail.command = "CHATHISTORY"
        /\ fail.code \in ErrorCodes
        /\ fail.context = IF IsTargets
                          THEN <<Request.subcommand>>
                          ELSE <<Request.subcommand, Request.arg_1>>
        /\ fail.description.text # ""

\* C18: every error the history service returns makes exactly one failure
\* and no history batch: InvalidTarget gives the code INVALID_TARGET,
\* InternalError(message) the code MESSAGE_ERROR with the message as
\* description; no error ends the request with success.
C18_ServiceErrorsReported ==
    (handler.pc = "done" /\ handler.reply # None
         /\ Unwrap(handler.reply).err # None)
        => LET error == Unwrap(Unwrap(handler.reply).err)
           IN /\ Returned # None
              /\ Cardinality(Failures) = 1
              /\ handler.sent = <<>>
              /\ error.kind = "InvalidTarget"
                     => Unwrap(Returned).code = "INVALID_TARGET"
              /\ error.kind = "InternalError"
                     => /\ Unwrap(Returned).code = "MESSAGE_ERROR"
                        /\ Unwrap(Returned).description.text = error.message

\* the history service answered InternalError("boom") and the handler
\* returned the failure
C18_Witness ==
    /\ handler.pc = "done"
    /\ handler.reply = Some(Err(InternalError("boom")))
    /\ Returned # None
    /\ Unwrap(Returned).code = "MESSAGE_ERROR"

(***************************************************************************)
(* Properties of expiry in the per-user indices                            *)
(***************************************************************************)
\* C21: expire_entries trims the primary log and then, with the primary
\* log's new start_index n, moves the floor of every per-user index over
\* exactly its longest prefix of ids < n: every position it passes holds an
\* id < n, it stops at the first id >= n (or at the index's size), and the
\* positions from there on, an id < n behind an id >= n included, are read
\* as before.
C21_IndexPrefixTrimmed ==
    [][expired' # None
          => LET n == StartIndex(entries')
             IN /\ DOMAIN user_logs' = DOMAIN user_logs
                /\ \A u \in DOMAIN user_logs :
                       LET old == user_logs[u]
                           new == user_logs'[u]
                       IN /\ new.slots = old.slots
                          /\ StartIndex(old) <= StartIndex(new)
                          /\ StartIndex(new) <= Size(old)
                          /\ \A p \in StartIndex(old) .. (StartIndex(new) - 1) :
                                 old.slots[p + 1].val < n
                          /\ StartIndex(new) < Size(old)
                                 => old.slots[StartIndex(new) + 1].val >= n
                          /\ \A p \in StartIndex(new) .. (Size(old) - 1) :
                                 Get(new, p) = Get(old, p)]_vars

\* the index [0, 1, 0] after an expiry that moved the primary log's floor
\* to 1: the first 0 is gone, the second one remains behind the 1
C21_Witness ==
    /\ expired # None
    /\ StartIndex(entries) = 1
    /\ UserIds("u1") = <<0, 1, 0>>
    /\ StartIndex(user_logs["u1"]) = 1
    /\ Get(user_logs["u1"], 2) = Some(0)

(***************************************************************************)
(* Properties of the iterators while the index they walk is appended to    *)
(***************************************************************************)
\* the primary entry, if any, of the id at position p of u's index
EntryAtPosition(u, p) == get(UserIds(u)[p + 1])

NoDuplicates(s) == \A i, j \in 1 .. Len(s) : i # j => s[i] # s[j]

\* a step that is a turn of the loop of t's iterator
IsLoopTurn(t) ==
    /\ iter[t].alive /\ iter'[t].alive
    /\ \/ iter'[t].current_index # iter[t].current_index
       \/ iter'[t].done # iter[t].done
       \/ iter'[t].out # iter[t].out

\* the turn leaves out alone or yields the entry of the position it is at
YieldsAtMost(t) ==
    \/ iter'[t].out = iter[t].out
    \/ /\ iter'[t].current_index < Size(user_logs[iter[t].user])
       /\ EntryAtPosition(iter[t].user, iter'[t].current_index) # None
       /\ iter'[t].out =
              Append(iter[t].out,
                     Unwrap(EntryAtPosition(iter[t].user, iter'[t].current_index)))

\* a turn of the loop of t's iterator that moves it, or ends it, is possible
CanMove(t) ==
    ENABLED (/\ \/ UserHistoryLogIterator_next(t)
                \/ ReverseUserHistoryLogIterator_next(t)
             /\ \/ iter'[t].current_index # iter[t].current_index
                \/ iter'[t].done)

\* a reverse iterator starts at the size of the index as it is when the
\* iterator is made
ReverseStartsAtSize(t) ==
    (~iter[t].alive /\ iter'[t].alive /\ iter'[t].reverse /\ iter'[t].user_log)
        => iter'[t].current_index = Size(user_logs[iter'[t].user])

\* a turn of the reverse iterator's loop goes one position down, or ends
\* the iteration at position 0 or below the index's start_index
ReverseTurn(t) ==
    (IsLoopTurn(t) /\ iter[t].reverse /\ iter[t].user_log)
        => /\ ~iter[t].done
           /\ \/ /\ iter[t].current_index = 0
                 /\ iter'[t].done
                 /\ iter'[t].current_index = 0
                 /\ iter'[t].out = iter[t].out
              \/ /\ iter[t].current_index > 0
                 /\ iter'[t].current_index = iter[t].current_index - 1
                 /\ YieldsAtMost(t)
                 /\ iter'[t].done
                        => /\ iter'[t].current_index
                                  < StartIndex(user_logs[iter[t].user])
                           /\ iter'[t].out = iter[t].out

\* a turn of the forward iterator's loop goes one position up and ends the
\* iteration exactly when that position is not below the index's size of
\* the moment (the loop adds one before it looks, so that over an index
\* with start_index = size the first position looked at is size + 1)
ForwardTurn(t) ==
    (IsLoopTurn(t) /\ ~iter[t].reverse /\ iter[t].user_log)
        => /\ ~iter[t].done
           /\ iter'[t].current_index = iter[t].current_index + 1
           /\ iter'[t].done
                  <=> iter'[t].current_index >= Size(user_logs[iter[t].user])
           /\ YieldsAtMost(t)
           /\ iter'[t].done => iter'[t].out = iter[t].out

\* C22 as stated, its last clause: an iterator during whose life the logs
\* were added to has yielded no entry twice.
C22_NeverYieldsEntryTwice ==
    \A t \in Threads :
        (iter[t].alive /\ ~iter[t].clean) => NoDuplicates(iter[t].out)

\* C22, amended: while add_entry_for_user appends to the index an iterator
\* walks, a reverse iterator starts at the index size of its creation and
\* goes down one position a turn, a forward iterator goes up one position a
\* turn and ends the first time its position is not below the index's size
\* of the moment; a turn yields at most the entry of the position it is at, every
\* turn moves or ends the iterator, and an entry is yielded twice only when
\* its id is stored at two positions of the index.
C22_PositionsVisitedOnce ==
    /\ [](\A t \in Threads :
              (iter[t].alive /\ iter[t].user_log)
                  => /\ iter[t].current_index
                            <= Size(user_logs[iter[t].user])
                                   + (IF iter[t].reverse THEN 0 ELSE 1)
                     /\ (~iter[t].done /\ pc[t] = "idle") => CanMove(t)
                     /\ NoDuplicates(UserIds(iter[t].user))
                            => NoDuplicates(iter[t].out))
    /\ [][\A t \in Threads :
              /\ ReverseStartsAtSize(t)
              /\ ReverseTurn(t)
              /\ ForwardTurn(t)]_vars

\* a forward iterator over the index [0, 1, 0], which was appended to after
\* the iterator was made: it has yielded the entries of positions 1 and 2
\* and ended at the size, 3
C22_Witness ==
    /\ iter["t1"].alive /\ ~iter["t1"].reverse /\ iter["t1"].done
    /\ ~iter["t1"].clean
    /\ Len(appended["t2"]) = 3
    /\ UserIds("u1") = <<0, 1, 0>>
    /\ StartIndex(user_logs["u1"]) = 0
    /\ iter["t1"].current_index = 3
    /\ Len(iter["t1"].out) = 2
    /\ iter["t1"].out[1].id = 1
    /\ iter["t1"].out[2].id = 0

(***************************************************************************)
(* Properties of the IPC endpoints                                         *)
(***************************************************************************)
\* C23: an endpoint dropped while it owns its socket leaves the socket shut
\* down in both directions exactly once, no socket is ever shut down twice
\* or in one direction only, and when into_raw_fd has returned a descriptor
\* the endpoint is gone without a shutdown: the descriptor in the caller's
\* hands is open and not shut down.
C23_ShutdownOnceUnlessHandedOver ==
    /\ [](\A r \in Roles :
              /\ Len(ipc.sockets[r].shutdown) <= 1
              /\ \A i \in 1 .. Len(ipc.sockets[r].shutdown) :
                     ipc.sockets[r].shutdown[i] = "Both"
              /\ ipc.ends[r].state = "alive" => ipc.ends[r].socket # None
              /\ ipc.ends[r].state = "dropped"
                     => \E s \in Roles :
                            /\ ipc.sockets[s].shutdown = <<"Both">>
                            /\ ~ipc.sockets[s].open
              /\ ipc.raw[r] # None
                     => /\ ipc.ends[r].state = "consumed"
                        /\ ipc.sockets[Unwrap(ipc.raw[r])].open
                        /\ ipc.sockets[Unwrap(ipc.raw[r])].shutdown = <<>>)
    /\ [][\A r \in Roles :
              /\ (ipc.ends[r].state = "alive" /\ ipc'.ends[r].state = "dropped")
                     => LET socket == Unwrap(ipc.ends[r].socket)
                        IN /\ ipc.sockets[socket].shutdown = <<>>
                           /\ ipc'.sockets[socket].shutdown = <<"Both">>
                           /\ ~ipc'.sockets[socket].open
              /\ (ipc.ends[r].state = "alive" /\ ipc'.ends[r].state = "consumed")
                     => LET socket == Unwrap(ipc.ends[r].socket)
                        IN /\ ipc'.raw[r] = Some(socket)
                           /\ ipc'.ends[r].socket = None
                           /\ ipc'.sockets[socket] = ipc.sockets[socket]
                           /\ ipc'.sockets[socket].open]_vars

\* the Sender was dropped and its socket shut down once, while the
\* Receiver's descriptor, given out by into_raw_fd, is open in the
\* caller's hands
C23_Witness ==
    /\ ipc.ends["Sender"].state = "dropped"
    /\ ipc.sockets["Sender"].shutdown = <<"Both">>
    /\ ipc.ends["Receiver"].state = "consumed"
    /\ ipc.raw["Receiver"] = Some("Receiver")
    /\ ipc.sockets["Receiver"].open
    /\ ipc.sockets["Receiver"].shutdown = <<>>

(***************************************************************************)
(* Properties of send_channel_names                                        *)
(***************************************************************************)
\* the members the reply lists: those not left out, by their place in the
\* membership
ListedMembers ==
    SelectSeq([i \in 1 .. Len(names.members) |-> i],
              LAMBDA i : ~IsSkipped(names.user_is_on_chan, names.members[i]))

RECURSIVE Flatten(_)
Flatten(lines) ==
    IF lines = <<>> THEN <<>>
    ELSE Head(lines).items \o Flatten(Tail(lines))

\* C24: when every member's rendered name is at most 298 characters long,
\* with or without multi-prefix, no NamesReply that send_channel_names has
\* sent holds a member list of more than CONTENT_LEN characters, and the
\* lines sent hold every listed member exactly once, in membership order.
C24_LinesWithinContentLen ==
    (/\ names.pc = "done"
     /\ names.result = Some("Ok")
     /\ \A i \in 1 .. Len(names.members) :
            NameLen(names.members[i], names.with_userhost) <= 298)
        => /\ \A i \in 1 .. Len(names.sent) :
                  names.sent[i].numeric = "NamesReply"
                      => names.sent[i].line.len <= CONTENT_LEN
           /\ Flatten(names.lines) = ListedMembers

====
